---- MODULE Spec2Model ----
(***************************************************************************)
(* One invocation of the Missive inbound webhook (api/missive-inbound.js)  *)
(* as a state machine.  The repository holds several iterations of the    *)
(* same handler; `variant` selects which one runs:                        *)
(*   "target"    part_002            Responses API, getReplyTarget        *)
(*   "last"      missive-inbound.js  Responses API, last message          *)
(*   "assistfull" part_004:304       Assistants run, paginated thread     *)
(*   "assist"    part_004:36         Assistants run, thread from convo    *)
(* Every await of the code is a position `pc`; the answer of the external *)
(* service is the input of the action that resumes the handler.           *)
(***************************************************************************)
EXTENDS Integers, Sequences, FiniteSets, TLC

VARIABLES
  variant,    \* which iteration of the handler is deployed
  req,        \* the webhook request: [method, convoId]
  srv,        \* behaviour of the conversation platform for this invocation
  pc,         \* the await the handler is suspended at
  until,      \* fetchConversationMessages: pagination cursor
  collected,  \* fetchConversationMessages: hydrated messages so far
  pages,      \* fetchConversationMessages: full pages consumed
  page,       \* fetchConversationMessages: stubs of the current page
  full,       \* Promise.all result slots of the current page
  inflight,   \* indices of the current page whose hydration is in flight
  messages,   \* handler: the sorted thread
  subject,    \* handler: conversation subject
  out,        \* handler: raw generated text
  status,     \* handler (Assistants variants): run status
  tries,      \* handler (Assistants variants): polls done
  calls,      \* history: every request issued to an external service
  listed,     \* history: every page the listing endpoint returned
  failedEp,   \* history: endpoints that answered with a non-success status
  resp,       \* history: every HTTP response sent to the webhook caller
  arg,        \* argument of the helper function under study
  ret         \* its result

vars == <<variant, req, srv, pc, until, collected, pages, page, full,
          inflight, messages, subject, out, status, tries, calls, listed,
          failedEp, resp, arg, ret>>

fetchVars == <<until, collected, pages, page, full, inflight>>

-----------------------------------------------------------------------------
(* Program constants *)

limit == 10
MAX_PAGES == 6
MAX_TRIES == 12

(* Bounds of the model *)

MaxConv == 3      \* small conversations 0..MaxConv served by the platform
ShortLen == 4     \* length of a short page of the unconstrained platform

NULL == "undefined"   \* undefined / null where a string is expected
NOTIME == 0 - 1        \* undefined / null where a timestamp is expected

SetMin(S) == CHOOSE x \in S : \A y \in S : x <= y
SetMax(S) == CHOOSE x \in S : \A y \in S : x >= y

Variants == {"target", "last", "assistfull", "assist"}
FetchVariants == {"target", "last", "assistfull"}
ResponsesVariants == {"target", "last"}

-----------------------------------------------------------------------------
(* The conversation platform, as the fetcher sees it.                      *)
(* mode "store":  a conversation of srv.n messages, 1 the oldest, listed   *)
(*   newest first in pages of `limit`, bounded by the `until` cursor       *)
(*   (inclusively or exclusively, srv.inclusive).                          *)
(* mode "free":   any page on any request (lengths 0, ShortLen or limit;   *)
(*   delivered_at absent, equal to the cursor, or moving).                 *)

BigT == 1000 * 1000   \* delivered_at of the newest message a free platform lists

Addresses == <<"ana.lopez@example.com", "hello@tab.travel", "Sam@Tab.Travel">>

\* sender of message id under the platform's sender pattern
FromOf(id) ==
  CASE srv.senders = "ext"   -> Addresses[1]
    [] srv.senders = "tab"   -> Addresses[2]
    [] srv.senders = "extfirst" -> IF id = 1 THEN Addresses[1] ELSE Addresses[3]
    [] OTHER                 -> Addresses[((id - 1) % 3) + 1]

\* created_at of message id
CreatedOf(id) ==
  CASE srv.corder = "asc"    -> id
    [] srv.corder = "zigzag" -> (id * 7) % 11
    [] OTHER                 -> BigT - id

\* delivered_at of message i of a stored conversation
DeliveredOf(i) == IF srv.ties THEN (i + 1) \div 2 ELSE i

\* GET /messages/:id, success: the full message
Hydrated(stub) ==
  [id |-> stub.id, created_at |-> CreatedOf(stub.id), from |-> FromOf(stub.id)]

\* the ids k, k-1, ... (at most `limit` of them), as stubs
StorePageFrom(k) ==
  [j \in 1..(IF k < limit THEN k ELSE limit) |->
     [id |-> k - j + 1, delivered_at |-> DeliveredOf(k - j + 1)]]

\* GET /conversations/:id/messages?limit=10&until=u on a stored conversation
StorePage(u) ==
  LET E == {i \in 1..srv.n :
              \/ u = NOTIME
              \/ IF srv.inclusive THEN DeliveredOf(i) <= u ELSE DeliveredOf(i) < u}
  IN IF E = {} THEN <<>> ELSE StorePageFrom(SetMax(E))

\* a page of the unconstrained platform: len stubs with fresh ids
FreePage(len, dmode, u, base) ==
  [j \in 1..len |->
     [id |-> base + j,
      delivered_at |->
        CASE dmode = "none" -> NOTIME
          [] dmode = "same" -> u
          [] dmode = "down" -> BigT - (base + j)
          [] dmode = "up"   -> base + j
          [] OTHER          -> IF j % 2 = 1 THEN BigT - (base + j) ELSE NOTIME]]

FreePages(u, base) ==
  {FreePage(len, d, u, base) :
     len \in {ShortLen, limit}, d \in {"none", srv.drift} \cup
                                      (IF u = NOTIME THEN {} ELSE {"same"})}
  \cup {<<>>}

\* every page the listing endpoint may answer with
ListPages(u, base) ==
  IF srv.mode = "store" THEN {StorePage(u)} ELSE FreePages(u, base)

-----------------------------------------------------------------------------
(* Strings *)

UpperChars == "ABCDEFGHIJKLMNOPQRSTUVWXYZÁÀÂÃÉÈÊÍÓÔÕÚÇÑ"
LowerChars == "abcdefghijklmnopqrstuvwxyzáàâãéèêíóôõúçñ"

CharAt(s, i) == SubSeq(s, i, i)

LowerChar(c) ==
  IF \E i \in 1..Len(UpperChars) : CharAt(UpperChars, i) = c
  THEN CharAt(LowerChars, CHOOSE i \in 1..Len(UpperChars) : CharAt(UpperChars, i) = c)
  ELSE c

\* String.prototype.toLowerCase
RECURSIVE toLowerCase(_)
toLowerCase(s) ==
  IF Len(s) <= 1 THEN LowerChar(s)
  ELSE LET h == Len(s) \div 2
       IN toLowerCase(SubSeq(s, 1, h)) \o toLowerCase(SubSeq(s, h + 1, Len(s)))

IsSpace(c) == c \in {" ", "\n", "\t", "\r"}

\* String.prototype.trim
RECURSIVE trim(_)
trim(s) ==
  IF Len(s) = 0 THEN ""
  ELSE IF IsSpace(CharAt(s, 1)) THEN trim(SubSeq(s, 2, Len(s)))
  ELSE IF IsSpace(CharAt(s, Len(s))) THEN trim(SubSeq(s, 1, Len(s) - 1))
  ELSE s

\* s has sub at position i
StartsAt(s, i, sub) ==
  i >= 1 /\ i + Len(sub) - 1 <= Len(s) /\ SubSeq(s, i, i + Len(sub) - 1) = sub

\* String.prototype.includes
Contains(s, sub) == \E i \in 1..(Len(s) - Len(sub) + 1) : StartsAt(s, i, sub)

\* number of positions of s where sub stands
Occurrences(s, sub) == Cardinality({i \in 1..(Len(s) - Len(sub) + 1) : StartsAt(s, i, sub)})

\* first position at or after i whose character is not white space
RECURSIVE SkipSpace(_, _)
SkipSpace(s, i) ==
  IF i <= Len(s) /\ IsSpace(CharAt(s, i)) THEN SkipSpace(s, i + 1) ELSE i

startsWith(s, p) == Len(s) >= Len(p) /\ SubSeq(s, 1, Len(p)) = p
endsWith(s, p) == Len(s) >= Len(p) /\ SubSeq(s, Len(s) - Len(p) + 1, Len(s)) = p

-----------------------------------------------------------------------------
(* Helpers of the handler *)

\* Array.prototype.sort is stable: m goes after every element not newer than it
InsertByCreated(t, m) ==
  LET k == Cardinality({i \in 1..Len(t) : t[i].created_at <= m.created_at})
  IN SubSeq(t, 1, k) \o <<m>> \o SubSeq(t, k + 1, Len(t))

RECURSIVE SortPrefix(_, _)
SortPrefix(s, k) ==
  IF k = 0 THEN <<>> ELSE InsertByCreated(SortPrefix(s, k - 1), s[k])

\* the list handed back in arrival order, without the final sort
Unsorted(s) == s

\* collected.sort((a, b) => new Date(a.created_at) - new Date(b.created_at))
SortByCreated(s) == SortPrefix(s, Len(s))

\* isFromTabAddress
isFromTabAddress(addr) ==
  LET a == trim(toLowerCase(addr))
  IN endsWith(a, "@tab.travel") \/ a = "hello@tab.travel"

\* isFromTab: m.from_field.address || m.creator.email || ""
isFromTab(m) == isFromTabAddress(IF m.from = NULL THEN "" ELSE m.from)

\* getReplyTarget: index of the reply target in msgs, 0 when msgs is empty
getReplyTarget(msgs) ==
  LET ext == {i \in 1..Len(msgs) : ~isFromTab(msgs[i])}
  IN IF ext # {} THEN SetMax(ext) ELSE Len(msgs)

\* messages[messages.length - 1]
lastMsg(msgs) == Len(msgs)

\* x?.from_field?.address of the message at index i (undefined when there is none)
AddressAt(msgs, i) == IF i = 0 THEN NULL ELSE msgs[i].from

\* draftSubject of the Responses-API handlers
draftSubject(subj) ==
  IF subj # ""
  THEN IF startsWith(toLowerCase(subj), "re:") THEN subj ELSE "Re: " \o subj
  ELSE "Re:"

\* subject of the Assistants handlers
plainReSubject(subj) == IF subj # "" THEN "Re: " \o subj ELSE "Re:"

\* body of the draft-creation request, per handler
DraftOf(v, convoId, subj, msgs) ==
  CASE v = "target" ->
         [endpoint |-> "/drafts", conversation |-> convoId,
          subject |-> draftSubject(subj), quote_previous_message |-> "false",
          from_field |-> "hello@tab.travel",
          to_fields |-> AddressAt(msgs, getReplyTarget(msgs)), send |-> "false"]
    [] v = "last" ->
         [endpoint |-> "/drafts", conversation |-> convoId,
          subject |-> draftSubject(subj), quote_previous_message |-> "false",
          from_field |-> "hello@tab.travel",
          to_fields |-> AddressAt(msgs, lastMsg(msgs)), send |-> "false"]
    [] v = "assistfull" ->
         [endpoint |-> "/drafts", conversation |-> convoId,
          subject |-> plainReSubject(subj), quote_previous_message |-> "false",
          from_field |-> "hello@tab.travel",
          to_fields |-> "absent", send |-> "absent"]
    [] OTHER ->
         [endpoint |-> "/messages", conversation |-> convoId,
          subject |-> plainReSubject(subj), quote_previous_message |-> "absent",
          from_field |-> "absent", to_fields |-> "absent", send |-> "absent"]


-----------------------------------------------------------------------------
(* Regular expressions of the CTA router.  A regex is the set of its       *)
(* alternatives; an alternative is a sequence of atoms: a literal, an      *)
(* optional character of a class (x?), or the word boundary \b.  A class   *)
(* of letters such as [aá] is written out as one alternative per letter.  *)

WS == {" ", "\n", "\t", "\r"}
L(str) == [k |-> "lit", s |-> str, cs |-> {}]
O(chars) == [k |-> "opt", s |-> "", cs |-> chars]
S == O(WS)
HS == O(WS \cup {"-"})
B == [k |-> "wb", s |-> "", cs |-> {}]
RSQUO == "~"   \* stands for U+2019, the typographic apostrophe

WordChars == "abcdefghijklmnopqrstuvwxyzABCDEFGHIJKLMNOPQRSTUVWXYZ0123456789_"
IsWordChar(c) == \E i \in 1..Len(WordChars) : CharAt(WordChars, i) = c

\* \b at position i of s (between s[i-1] and s[i])
AtWordBoundary(s, i) ==
  LET before == i > 1 /\ IsWordChar(CharAt(s, i - 1))
      after == i <= Len(s) /\ IsWordChar(CharAt(s, i))
  IN before # after

\* the atoms k.. of pat match s from position i on
RECURSIVE MatchFrom(_, _, _, _)
MatchFrom(pat, k, s, i) ==
  IF k > Len(pat) THEN TRUE
  ELSE LET a == pat[k] IN
    CASE a.k = "lit" ->
           /\ i + Len(a.s) - 1 <= Len(s)
           /\ SubSeq(s, i, i + Len(a.s) - 1) = a.s
           /\ MatchFrom(pat, k + 1, s, i + Len(a.s))
      [] a.k = "opt" ->
           \/ /\ i <= Len(s)
              /\ CharAt(s, i) \in a.cs
              /\ MatchFrom(pat, k + 1, s, i + 1)
           \/ MatchFrom(pat, k + 1, s, i)
      [] OTHER ->
           /\ AtWordBoundary(s, i)
           /\ MatchFrom(pat, k + 1, s, i)

\* RegExp.prototype.test of an unanchored regex
rxTest(rx, s) ==
  \E pat \in rx : \E i \in 1..(Len(s) + 1) : MatchFrom(pat, 1, s, i)

\* /(in[-\s]?person|face\s?to\s?face|pos\b|card\s?(reader|machine)|tap\s?to\s?pay|pay\s?by\s?phone|in\s?store|on[-\s]?site)/i
InPersonEN ==
  {<<L("in"), HS, L("person")>>,
   <<L("face"), S, L("to"), S, L("face")>>,
   <<L("pos"), B>>,
   <<L("card"), S, L("reader")>>,
   <<L("card"), S, L("machine")>>,
   <<L("tap"), S, L("to"), S, L("pay")>>,
   <<L("pay"), S, L("by"), S, L("phone")>>,
   <<L("in"), S, L("store")>>,
   <<L("on"), HS, L("site")>>}

\* /(en\s?persona|presencial|en\s?tienda|tpv|dat[aá]fono|lector\s?de\s?tarjetas|pago\s?por\s?tel[eé]fono)/i
InPersonES ==
  {<<L("en"), S, L("persona")>>,
   <<L("presencial")>>,
   <<L("en"), S, L("tienda")>>,
   <<L("tpv")>>,
   <<L("datafono")>>,
   <<L("datáfono")>>,
   <<L("lector"), S, L("de"), S, L("tarjetas")>>,
   <<L("pago"), S, L("por"), S, L("telefono")>>,
   <<L("pago"), S, L("por"), S, L("teléfono")>>}

\* /(em\s?pessoa|na\s?loja|pos\b|maquininha|leitor\s?de\s?cart[aã]o|pagar\s?por\s?telef[oô]ne)/i
InPersonPT ==
  {<<L("em"), S, L("pessoa")>>,
   <<L("na"), S, L("loja")>>,
   <<L("pos"), B>>,
   <<L("maquininha")>>,
   <<L("leitor"), S, L("de"), S, L("cartao")>>,
   <<L("leitor"), S, L("de"), S, L("cartão")>>,
   <<L("pagar"), S, L("por"), S, L("telefone")>>,
   <<L("pagar"), S, L("por"), S, L("telefône")>>}

\* /(en\s?personne|en\s?magasin|sur\s?place|tpe\b|lecteur\s?de\s?carte|paiement\s?par\s?t[eé]l[eé]phone)/i
InPersonFR ==
  {<<L("en"), S, L("personne")>>,
   <<L("en"), S, L("magasin")>>,
   <<L("sur"), S, L("place")>>,
   <<L("tpe"), B>>,
   <<L("lecteur"), S, L("de"), S, L("carte")>>,
   <<L("paiement"), S, L("par"), S, L("telephone")>>,
   <<L("paiement"), S, L("par"), S, L("teléphone")>>,
   <<L("paiement"), S, L("par"), S, L("télephone")>>,
   <<L("paiement"), S, L("par"), S, L("téléphone")>>}

\* /(integration|integrations|integrate|plugin|plug[-\s]?in|connect\s?with|works\s?with|supports|pms|booking\.com|airbnb|xero|quickbooks)/i
IntegrationsEN ==
  {<<L("integration")>>,
   <<L("integrations")>>,
   <<L("integrate")>>,
   <<L("plugin")>>,
   <<L("plug"), HS, L("in")>>,
   <<L("connect"), S, L("with")>>,
   <<L("works"), S, L("with")>>,
   <<L("supports")>>,
   <<L("pms")>>,
   <<L("booking.com")>>,
   <<L("airbnb")>>,
   <<L("xero")>>,
   <<L("quickbooks")>>}

\* /(integraci[oó]n|integraciones|integrar|plugin|conector|conectar\s?con|funciona\s?con|pms|booking\.com|airbnb|xero|quickbooks)/i
IntegrationsES ==
  {<<L("integracion")>>,
   <<L("integración")>>,
   <<L("integraciones")>>,
   <<L("integrar")>>,
   <<L("plugin")>>,
   <<L("conector")>>,
   <<L("conectar"), S, L("con")>>,
   <<L("funciona"), S, L("con")>>,
   <<L("pms")>>,
   <<L("booking.com")>>,
   <<L("airbnb")>>,
   <<L("xero")>>,
   <<L("quickbooks")>>}

\* /(integra[cç][aã]o|integra[cç][oõ]es|integrar|plugin|conectar\s?com|funciona\s?com|pms|booking\.com|airbnb|xero|quickbooks)/i
IntegrationsPT ==
  {<<L("integracao")>>,
   <<L("integracão")>>,
   <<L("integraçao")>>,
   <<L("integração")>>,
   <<L("integracoes")>>,
   <<L("integracões")>>,
   <<L("integraçoes")>>,
   <<L("integrações")>>,
   <<L("integrar")>>,
   <<L("plugin")>>,
   <<L("conectar"), S, L("com")>>,
   <<L("funciona"), S, L("com")>>,
   <<L("pms")>>,
   <<L("booking.com")>>,
   <<L("airbnb")>>,
   <<L("xero")>>,
   <<L("quickbooks")>>}

\* /(int[eé]gration|int[eé]grations|int[eé]grer|plugin|se\s?connecter\s?[aà]|fonctionne\s?avec|pms|booking\.com|airbnb|xero|quickbooks)/i
IntegrationsFR ==
  {<<L("integration")>>,
   <<L("intégration")>>,
   <<L("integrations")>>,
   <<L("intégrations")>>,
   <<L("integrer")>>,
   <<L("intégrer")>>,
   <<L("plugin")>>,
   <<L("se"), S, L("connecter"), S, L("a")>>,
   <<L("se"), S, L("connecter"), S, L("à")>>,
   <<L("fonctionne"), S, L("avec")>>,
   <<L("pms")>>,
   <<L("booking.com")>>,
   <<L("airbnb")>>,
   <<L("xero")>>,
   <<L("quickbooks")>>}

\* /(website|on\s?(your|my)\s?(website|site)|checkout|online\s?payments|payment\s?(form|page)|accept\s?payments\s?online)/i
OnWebsiteEN ==
  {<<L("website")>>,
   <<L("on"), S, L("your"), S, L("website")>>,
   <<L("on"), S, L("your"), S, L("site")>>,
   <<L("on"), S, L("my"), S, L("website")>>,
   <<L("on"), S, L("my"), S, L("site")>>,
   <<L("checkout")>>,
   <<L("online"), S, L("payments")>>,
   <<L("payment"), S, L("form")>>,
   <<L("payment"), S, L("page")>>,
   <<L("accept"), S, L("payments"), S, L("online")>>}

\* /(sitio\s?web|en\s?(su|mi)\s?sitio|pagos?\s?(online|en\s?l[ií]nea)|p[aá]gina\s?de\s?pago|formulario\s?de\s?pago)/i
OnWebsiteES ==
  {<<L("sitio"), S, L("web")>>,
   <<L("en"), S, L("su"), S, L("sitio")>>,
   <<L("en"), S, L("mi"), S, L("sitio")>>,
   <<L("pago"), O({"s"}), S, L("online")>>,
   <<L("pago"), O({"s"}), S, L("en"), S, L("linea")>>,
   <<L("pago"), O({"s"}), S, L("en"), S, L("línea")>>,
   <<L("pagina"), S, L("de"), S, L("pago")>>,
   <<L("página"), S, L("de"), S, L("pago")>>,
   <<L("formulario"), S, L("de"), S, L("pago")>>}

\* /(site|no\s?(seu|meu)\s?site|pagamentos?\s?online|p[aá]gina\s?de\s?pagamento|formul[aá]rio)/i
OnWebsitePT ==
  {<<L("site")>>,
   <<L("no"), S, L("seu"), S, L("site")>>,
   <<L("no"), S, L("meu"), S, L("site")>>,
   <<L("pagamento"), O({"s"}), S, L("online")>>,
   <<L("pagina"), S, L("de"), S, L("pagamento")>>,
   <<L("página"), S, L("de"), S, L("pagamento")>>,
   <<L("formulario")>>,
   <<L("formulário")>>}

\* /(site\s?web|sur\s?(votre|mon)\s?site|paiements?\s?en\s?ligne|page\s?de\s?paiement|formulaire)/i
OnWebsiteFR ==
  {<<L("site"), S, L("web")>>,
   <<L("sur"), S, L("votre"), S, L("site")>>,
   <<L("sur"), S, L("mon"), S, L("site")>>,
   <<L("paiement"), O({"s"}), S, L("en"), S, L("ligne")>>,
   <<L("page"), S, L("de"), S, L("paiement")>>,
   <<L("formulaire")>>}

\* /(payment\s?link|pay\s?link|link\s?to\s?pay|invoice|request\s?(a\s?)?payment|advance\s?payment|deposit\s?request)/i
PaymentLinksEN ==
  {<<L("payment"), S, L("link")>>,
   <<L("pay"), S, L("link")>>,
   <<L("link"), S, L("to"), S, L("pay")>>,
   <<L("invoice")>>,
   <<L("request"), S, L("a"), S, L("payment")>>,
   <<L("request"), S, L("payment")>>,
   <<L("advance"), S, L("payment")>>,
   <<L("deposit"), S, L("request")>>}

\* /(enlace\s?de\s?pago|link\s?de\s?pago|factura|solicitud\s?de\s?pago|pago\s?por\s?adelantado|anticipo|dep[oó]sito)/i
PaymentLinksES ==
  {<<L("enlace"), S, L("de"), S, L("pago")>>,
   <<L("link"), S, L("de"), S, L("pago")>>,
   <<L("factura")>>,
   <<L("solicitud"), S, L("de"), S, L("pago")>>,
   <<L("pago"), S, L("por"), S, L("adelantado")>>,
   <<L("anticipo")>>,
   <<L("deposito")>>,
   <<L("depósito")>>}

\* /(link\s?de\s?pagamento|fatura|pedido\s?de\s?pagamento|pagamento\s?adiantado|adiantamento)/i
PaymentLinksPT ==
  {<<L("link"), S, L("de"), S, L("pagamento")>>,
   <<L("fatura")>>,
   <<L("pedido"), S, L("de"), S, L("pagamento")>>,
   <<L("pagamento"), S, L("adiantado")>>,
   <<L("adiantamento")>>}

\* /(lien\s?de\s?paiement|facture|demande\s?de\s?paiement|paiement\s?a\s?l[\u2019']?avance|acompte)/i
PaymentLinksFR ==
  {<<L("lien"), S, L("de"), S, L("paiement")>>,
   <<L("facture")>>,
   <<L("demande"), S, L("de"), S, L("paiement")>>,
   <<L("paiement"), S, L("a"), S, L("l"), O({"'", RSQUO}), L("avance")>>,
   <<L("acompte")>>}

InPerson == {InPersonEN, InPersonES, InPersonPT, InPersonFR}
Integrations == {IntegrationsEN, IntegrationsES, IntegrationsPT, IntegrationsFR}
OnWebsite == {OnWebsiteEN, OnWebsiteES, OnWebsitePT, OnWebsiteFR}
PaymentLinks == {PaymentLinksEN, PaymentLinksES, PaymentLinksPT, PaymentLinksFR}

AccentedChars == "áàâãéèêíóôõúçñÁÀÂÃÉÈÊÍÓÔÕÚÇÑ"
BaseChars     == "aaaaeeeiooouncAAAAEEEIOOOUCN"

FoldChar(c) ==
  IF \E i \in 1..Len(AccentedChars) : CharAt(AccentedChars, i) = c
  THEN CharAt(BaseChars, CHOOSE i \in 1..Len(AccentedChars) : CharAt(AccentedChars, i) = c)
  ELSE c

\* String(s).normalize("NFD").replace(/[\u0300-\u036f]/g, "")
RECURSIVE fold(_)
fold(s) ==
  IF Len(s) = 0 THEN "" ELSE FoldChar(CharAt(s, 1)) \o fold(SubSeq(s, 2, Len(s)))

haystack(text, subj) ==
  LET raw == subj \o "\n" \o text
  IN [lower |-> toLowerCase(raw), foldLower |-> toLowerCase(fold(raw))]

\* regexes.some(rx => rx.test(hay.lower) || rx.test(hay.foldLower))
testAny(hay, regexes) ==
  \E rx \in regexes : rxTest(rx, hay.lower) \/ rxTest(rx, hay.foldLower)

\* the categories tested in another order: payment links first
detectCtaPathReordered(text, subj) ==
  LET hay == haystack(text, subj)
  IN IF testAny(hay, PaymentLinks) THEN "/features/in-advance"
     ELSE IF testAny(hay, OnWebsite) THEN "/features/on-your-website"
     ELSE IF testAny(hay, Integrations) THEN "/features/integrations"
     ELSE IF testAny(hay, InPerson) THEN "/features/in-person"
     ELSE "/"

detectCtaPath(text, subj) ==
  LET hay == haystack(text, subj)
  IN IF testAny(hay, InPerson) THEN "/features/in-person"
     ELSE IF testAny(hay, Integrations) THEN "/features/integrations"
     ELSE IF testAny(hay, OnWebsite) THEN "/features/on-your-website"
     ELSE IF testAny(hay, PaymentLinks) THEN "/features/in-advance"
     ELSE "/"

-----------------------------------------------------------------------------
(* Helpers that shape the text: clamp, paragraph spacing, signature.       *)

EMDASH == "¯"   \* stands for U+2014, the em dash of the signature and the CTA sentence
BULLET == "·"   \* stands for U+2022, the bullet of the list detector

TruncationMarker == "\n[...truncated for length...]"

\* the marker put in front of the kept characters
clampMarkerFirst(text, max) ==
  IF text = "" THEN ""
  ELSE IF Len(text) <= max THEN text
  ELSE TruncationMarker \o SubSeq(text, 1, max)

\* the marker appended twice
clampTwoMarkers(text, max) ==
  IF text = "" THEN ""
  ELSE IF Len(text) <= max THEN text
  ELSE SubSeq(text, 1, max) \o TruncationMarker \o TruncationMarker

\* clamp(text, max): if (!text) return ""; text within max is returned as is
clamp(text, max) ==
  IF text = "" THEN ""
  ELSE IF Len(text) <= max THEN text
  ELSE SubSeq(text, 1, max) \o TruncationMarker

\* html.replace(/<\/p>\s*<p>/g, "</p><p><br></p><p>"), scanning from position i
RECURSIVE SpacingFrom(_, _)
SpacingFrom(s, i) ==
  LET hits == {k \in i..Len(s) :
                 StartsAt(s, k, "</p>") /\ StartsAt(s, SkipSpace(s, k + 4), "<p>")}
  IN IF hits = {} THEN SubSeq(s, i, Len(s))
     ELSE LET k == SetMin(hits)
          IN SubSeq(s, i, k - 1) \o "</p><p><br></p><p>"
             \o SpacingFrom(s, SkipSpace(s, k + 4) + 3)

addParagraphSpacing(html) == SpacingFrom(html, 1)

Signature ==
  "<p><br></p><p>Raghvi</p><p>" \o EMDASH \o "</p><p>Tab Support</p><p><br></p><p>Tab.</p>"
  \o "<p><a href=\"https://business.tab.travel/payments\">business.tab.travel/payments</a></p>"
  \o "<p><br></p><p>Tab Labs Ltd is a company registered in England and Wales. "
  \o "Registered number: 09339113. Registered office: 6th Floor, 1 London Wall, "
  \o "London, EC2Y 5EB, UK.</p>"

\* the signature appended whatever the body holds
appendSignatureAlways(html) == html \o Signature

\* appendSignature of the Responses-API handler
appendSignature(html) ==
  IF Contains(html, "Raghvi") /\ Contains(html, "Tab Support") THEN html
  ELSE html \o Signature

ShortSignature == "<p><br></p><p>Best regards,</p><p>Raghvi</p>"

\* appendSignature of the Assistants handler
appendSignatureShort(html) ==
  IF Contains(html, "Best regards") /\ Contains(html, "Raghvi") THEN html
  ELSE html \o ShortSignature

-----------------------------------------------------------------------------
(* The greeting step.  The regexes with \s*, \s+ and [^<]* use three more  *)
(* atoms; MatchEnds gives every position at which a match starting at i    *)
(* can end, and a greedy match ends at the largest of them.                *)

\* \s* and \s+ ("star", "plus") and [^...]* ("nstar")
Rep(kind, chars) == [k |-> kind, s |-> "", cs |-> chars]

\* the positions just after a match of the atoms k.. of pat that starts at i
RECURSIVE MatchEnds(_, _, _, _)
MatchEnds(pat, k, s, i) ==
  IF k > Len(pat) THEN {i}
  ELSE LET a == pat[k]
           InClass(j) == IF a.k = "nstar" THEN CharAt(s, j) \notin a.cs
                         ELSE CharAt(s, j) \in a.cs
           \* the run of class characters from i on has at least r characters
           Runs(r) == \A j \in i..(i + r - 1) : j <= Len(s) /\ InClass(j)
       IN CASE a.k = "lit" ->
                 IF StartsAt(s, i, a.s) THEN MatchEnds(pat, k + 1, s, i + Len(a.s)) ELSE {}
            [] a.k = "opt" ->
                 (IF i <= Len(s) /\ CharAt(s, i) \in a.cs
                  THEN MatchEnds(pat, k + 1, s, i + 1) ELSE {})
                 \cup MatchEnds(pat, k + 1, s, i)
            [] a.k = "wb" ->
                 IF AtWordBoundary(s, i) THEN MatchEnds(pat, k + 1, s, i) ELSE {}
            [] OTHER ->
                 UNION {MatchEnds(pat, k + 1, s, i + r) :
                          r \in {q \in (IF a.k = "plus" THEN 1 ELSE 0)..(Len(s) - i + 1) : Runs(q)}}

\* html.replace(/<[^>]*>/g, sub), scanning from position i
RECURSIVE StripTagsFrom(_, _, _)
StripTagsFrom(s, i, sub) ==
  LET closes(k) == {j \in (k + 1)..Len(s) : CharAt(s, j) = ">"}
      opens == {k \in i..Len(s) : CharAt(s, k) = "<" /\ closes(k) # {}}
  IN IF opens = {} THEN SubSeq(s, i, Len(s))
     ELSE LET k == SetMin(opens)
          IN SubSeq(s, i, k - 1) \o sub \o StripTagsFrom(s, SetMin(closes(k)) + 1, sub)

\* stripHtml
stripHtml(html) == StripTagsFrom(html, 1, "")

\* stripToPlainText
stripToPlainText(html) ==
  LET \* s.replace(/\s+/g, " "), scanning from position i
      RECURSIVE CollapseSpaceFrom(_, _)
      CollapseSpaceFrom(s, i) ==
        LET spaces == {k \in i..Len(s) : IsSpace(CharAt(s, k))}
        IN IF spaces = {} THEN SubSeq(s, i, Len(s))
           ELSE SubSeq(s, i, SetMin(spaces) - 1) \o " "
                \o CollapseSpaceFrom(s, SkipSpace(s, SetMin(spaces)))
  IN trim(CollapseSpaceFrom(StripTagsFrom(html, 1, " "), 1))

\* startsWithGreeting: /^(hi|hello|dear)\b/ on the lower-cased plain text
startsWithGreeting(html) ==
  LET text == toLowerCase(stripToPlainText(html))
  IN \E w \in {"hi", "hello", "dear"} : MatchEnds(<<L(w), B>>, 1, text, 1) # {}

\* personalizeExistingGreeting: two replace calls without the g flag, the
\* letter case ignored by both
personalizeExistingGreeting(html, name) ==
  IF name = "" THEN html
  ELSE LET hiThere == <<Rep("star", WS), L("hi"), Rep("plus", WS), L("there"),
                        Rep("star", WS), O({","})>>
           inP == <<L("<p>")>> \o hiThere \o <<Rep("star", WS), L("</p>")>>
           low == toLowerCase(html)
           starts == {i \in 1..Len(html) : MatchEnds(inP, 1, low, i) # {}}
           \* $1Hi ${name},$3 : the tags as they stand in html
           first == IF starts = {} THEN html
                    ELSE LET i == SetMin(starts)
                             e == SetMax(MatchEnds(inP, 1, low, i))
                         IN SubSeq(html, 1, i + 2) \o "Hi " \o name \o ","
                            \o SubSeq(html, e - 4, Len(html))
           \* /^(\s*)hi\s+there\s*,?/i
           ends == MatchEnds(hiThere, 1, toLowerCase(first), 1)
       IN IF ends = {} THEN first
          ELSE "Hi " \o name \o "," \o SubSeq(first, SetMax(ends), Len(first))

\* dedupeGreetings: of the first two greeting paragraphs that stand
\* back-to-back the first is kept
dedupeGreetings(html) ==
  LET low == toLowerCase(html)
      \* <p>\s*(?:hi|hello|dear)[^<]*<\/p> at position i: the position after
      \* it, 0 when it does not match
      GreetingParagraphEnd(i) ==
        LET ends == UNION {MatchEnds(<<L("<p>"), Rep("star", WS), L(w),
                                       Rep("nstar", {"<"}), L("</p>")>>, 1, low, i) :
                             w \in {"hi", "hello", "dear"}}
        IN IF ends = {} THEN 0 ELSE SetMax(ends)
      second(i) == SkipSpace(low, GreetingParagraphEnd(i))
      starts == {i \in 1..Len(html) :
                   /\ GreetingParagraphEnd(i) # 0
                   /\ GreetingParagraphEnd(second(i)) # 0}
  IN IF starts = {} THEN html
     ELSE LET i == SetMin(starts)
          IN SubSeq(html, 1, GreetingParagraphEnd(i) - 1)
             \o SubSeq(html, GreetingParagraphEnd(second(i)), Len(html))

\* const ourGreeting = `<p>Hi ${recipientFirst || "there"},</p>`
ourGreeting(name) == "<p>Hi " \o (IF name = "" THEN "there" ELSE name) \o ",</p>"

\* the greeting enforcement of the handler
withGreeting(html, name) ==
  dedupeGreetings(IF startsWithGreeting(html)
                  THEN personalizeExistingGreeting(html, name)
                  ELSE ourGreeting(name) \o html)

\* the greeting enforcement of the earlier handler:
\* if (!/^<p>\s*hi\b/i.test(finalHtml)) finalHtml = greetingHtml + finalHtml
withGreetingHiOnly(html, name) ==
  IF MatchEnds(<<L("<p>"), Rep("star", WS), L("hi"), B>>, 1, toLowerCase(html), 1) # {}
  THEN html
  ELSE ourGreeting(name) \o html

-----------------------------------------------------------------------------
(* The call-to-action sentence, the HTML coercion, the paragraph structure *)
(* and the body the handler publishes.                                     *)

WEBSITE_BASE == "https://business.tab.travel"
UTM_SUFFIX ==
  "show=true&referrer_code=F25&utm_source=Missive&utm_medium=email&utm_campaign=F25"

\* withUtms(joinUrl(suggestedPath))
SUGGESTED_CTA_URL(path) ==
  LET RECURSIVE NoLeadingSlash(_)
      NoLeadingSlash(t) == IF t # "" /\ CharAt(t, 1) = "/"
                           THEN NoLeadingSlash(SubSeq(t, 2, Len(t))) ELSE t
      \* WEBSITE_BASE has no trailing slash to drop
      joinUrl == WEBSITE_BASE \o "/" \o NoLeadingSlash(IF path = "" THEN "/" ELSE path)
  IN joinUrl \o (IF Contains(joinUrl, "?") THEN "&" ELSE "?") \o UTM_SUFFIX

ctaSentence(url) ==
  "<p>You can find out more and apply on <a href=\"" \o url
  \o "\">our website</a> " \o EMDASH \o " we look forward to working with you!</p>"

\* the mutant: the sentence is appended whatever the body holds
withCtaAlways(html, url) == html \o ctaSentence(url)

\* if (!/business\.tab\.travel/i.test(finalHtml)) finalHtml += ctaSentence
withCta(html, url) ==
  IF ~Contains(toLowerCase(html), "business.tab.travel")
  THEN html \o ctaSentence(url)
  ELSE html

\* /<\/?[a-z][\s\S]*>/i.test(out) ? out : `<p>${out.replace(/\n/g, "<br/>")}</p>`
ensureHtml(o) ==
  LET IsLetter(c) == c # "" /\ Contains("abcdefghijklmnopqrstuvwxyzABCDEFGHIJKLMNOPQRSTUVWXYZ", c)
      tagLike == \E i \in 1..Len(o) :
                   /\ CharAt(o, i) = "<"
                   /\ LET k == IF CharAt(o, i + 1) = "/" THEN i + 2 ELSE i + 1
                      IN /\ IsLetter(CharAt(o, k))
                         /\ \E j \in (k + 1)..Len(o) : CharAt(o, j) = ">"
      RECURSIVE Breaks(_)
      Breaks(i) == LET nls == {k \in i..Len(o) : CharAt(o, k) = "\n"}
                   IN IF nls = {} THEN SubSeq(o, i, Len(o))
                      ELSE SubSeq(o, i, SetMin(nls) - 1) \o "<br/>" \o Breaks(SetMin(nls) + 1)
  IN IF tagLike THEN o ELSE "<p>" \o Breaks(1) \o "</p>"

ensureReadableStructure(html) ==
  LET low == toLowerCase(html)
      hasList == \E i \in 1..Len(html), t \in {"<ul", "<ol"} :
                   MatchEnds(<<L(t), B>>, 1, low, i) # {}
      pCount == Cardinality({i \in 1..Len(html) : MatchEnds(<<L("<p"), B>>, 1, low, i) # {}})
      plain == stripHtml(html)
      IsDash(c) == c \in {"-", BULLET}
      IsBreak(c) == c \in {"\n", "\r"}
      \* /(^|\n|\r)(?:-|•)\s+\S+/m
      dashList == \E i \in 1..Len(plain) :
                    /\ i = 1 \/ IsBreak(CharAt(plain, i - 1))
                    /\ IsDash(CharAt(plain, i))
                    /\ IsSpace(CharAt(plain, i + 1))
                    /\ SkipSpace(plain, i + 1) <= Len(plain)
      \* plain.split(/\s*[\r\n]+\s*/)
      \* the separators are the runs of white space that hold a line break
      RECURSIVE Lines(_)
      Lines(i) ==
        LET seps == {k \in i..Len(plain) :
                       /\ IsSpace(CharAt(plain, k))
                       /\ k = 1 \/ ~IsSpace(CharAt(plain, k - 1))
                       /\ \E j \in k..(SkipSpace(plain, k) - 1) : IsBreak(CharAt(plain, j))}
        IN IF seps = {} THEN <<SubSeq(plain, i, Len(plain))>>
           ELSE <<SubSeq(plain, i, SetMin(seps) - 1)>> \o Lines(SkipSpace(plain, SetMin(seps)))
      bullets == SelectSeq(Lines(1),
                           LAMBDA l : IsDash(CharAt(l, 1)) /\ IsSpace(CharAt(l, 2)))
      RECURSIVE Li(_)
      Li(k) == IF k > Len(bullets) THEN ""
               ELSE "<li>" \o trim(SubSeq(bullets[k], SkipSpace(bullets[k], 2), Len(bullets[k])))
                    \o "</li>" \o Li(k + 1)
      withList == IF ~hasList /\ dashList /\ Len(bullets) >= 2
                  THEN html \o "<ul>" \o Li(1) \o "</ul>"
                  ELSE html
      \* plain.split(/(?<=[.!?])\s+(?=[A-Z])/)
      RECURSIVE Sentences(_)
      Sentences(i) ==
        LET cuts == {k \in i..Len(plain) :
                       /\ k > 1
                       /\ CharAt(plain, k - 1) \in {".", "!", "?"}
                       /\ IsSpace(CharAt(plain, k))
                       /\ SkipSpace(plain, k) <= Len(plain)
                       /\ Contains("ABCDEFGHIJKLMNOPQRSTUVWXYZ",
                                   CharAt(plain, SkipSpace(plain, k)))}
        IN IF cuts = {} THEN <<SubSeq(plain, i, Len(plain))>>
           ELSE <<SubSeq(plain, i, SetMin(cuts) - 1)>> \o Sentences(SkipSpace(plain, SetMin(cuts)))
      sentences == Sentences(1)
      \* two sentences to a paragraph
      RECURSIVE Chunks(_)
      Chunks(k) ==
        IF k > Len(sentences) THEN ""
        ELSE IF k = Len(sentences) THEN "<p>" \o sentences[k] \o "</p>"
        ELSE "<p>" \o sentences[k] \o " " \o sentences[k + 1] \o "</p>" \o Chunks(k + 2)
  IN IF pCount <= 1 /\ Len(sentences) > 2 THEN Chunks(1) ELSE withList

\* the body of the draft: coercion, greeting, CTA sentence, structure,
\* spacing, signature
finalBody(o, name, path) ==
  appendSignature(
    addParagraphSpacing(
      ensureReadableStructure(
        withCta(withGreeting(ensureHtml(o), name), SUGGESTED_CTA_URL(path)))))

\* the body of the draft of the earlier handler: no merging of greetings
\* and no paragraph structure step
finalBodyInbound(o, name, path) ==
  appendSignature(
    addParagraphSpacing(
      withCta(withGreetingHiOnly(ensureHtml(o), name), SUGGESTED_CTA_URL(path))))

-----------------------------------------------------------------------------
(* Control flow shared by the actions.  Each operator fixes pc, calls,     *)
(* resp, messages and the locals of fetchConversationMessages.             *)

NoFetchLocals ==
  /\ until' = NOTIME /\ collected' = <<>> /\ pages' = 0
  /\ page' = <<>> /\ full' = <<>> /\ inflight' = {}

\* res.status(code).json(body) / .send(body)
Respond(code, body) == resp' = Append(resp, [code |-> code, body |-> body])

\* an error that no catch turns into a response
ThrowUncaught(msg) ==
  /\ resp' = resp
  /\ pc' = "done"
  /\ calls' = calls
  /\ messages' = messages
  /\ NoFetchLocals

\* throw new Error(msg), caught by the handler's catch: 500 {error: msg}
Throw(msg) ==
  /\ Respond(500, [error |-> msg])
  /\ pc' = "done"
  /\ calls' = calls
  /\ messages' = messages
  /\ NoFetchLocals

\* the first external call after the thread is known
StartGeneration(msgs) ==
  /\ messages' = msgs
  /\ NoFetchLocals
  /\ resp' = resp
  /\ IF variant \in ResponsesVariants
     THEN /\ calls' = Append(calls, [ep |-> "createResponse"])
          /\ pc' = "awaitGen"
     ELSE /\ calls' = Append(calls, [ep |-> "createThread"])
          /\ pc' = "awaitThread"

\* the draft-creation request, issued once the generated text is known
StartDraft ==
  /\ calls' = Append(calls, [ep |-> "createDraft",
                             draft |-> DraftOf(variant, req.convoId, subject, messages)])
  /\ pc' = "awaitDraft"
  /\ resp' = resp
  /\ messages' = messages
  /\ UNCHANGED fetchVars

\* a loop without the page cap
LoopForever(pg) == TRUE

\* while (pages < MAX_PAGES)
LoopContinues(pg) == pg < MAX_PAGES

\* return of fetchConversationMessages: sort, then the handler goes on
EndFetch(coll) == StartGeneration(SortByCreated(coll))

\* top of the while loop of fetchConversationMessages
LoopHead(pg, u, coll) ==
  IF LoopContinues(pg)
  THEN /\ calls' = Append(calls, [ep |-> "listMessages", until |-> u])
       /\ pc' = "awaitList"
       /\ until' = u /\ pages' = pg /\ collected' = coll
       /\ page' = <<>> /\ full' = <<>> /\ inflight' = {}
       /\ messages' = messages
       /\ resp' = resp
  ELSE EndFetch(coll)

\* page.map(p => p.delivered_at).filter(v => v !== undefined && v !== null)
deliveredAts(pg) ==
  {pg[j].delivered_at : j \in {k \in 1..Len(pg) : pg[k].delivered_at # NOTIME}}

\* the newest delivered_at of the page taken as the cursor
newestInPage(pg) ==
  IF deliveredAts(pg) # {} THEN SetMax(deliveredAts(pg)) ELSE NOTIME

\* deliveredAts.length ? Math.min(...deliveredAts) : undefined
oldestInPage(pg) ==
  IF deliveredAts(pg) # {} THEN SetMin(deliveredAts(pg)) ELSE NOTIME

\* !oldestInPage
Falsy(v) == v = NOTIME \/ v = 0

\* the break without the tests of the cursor
StopOnlyWhenShort(pg, oldest, u) == Len(pg) < limit

\* the break without the short-page test
StopOnlyWhenStuck(pg, oldest, u) == Falsy(oldest) \/ oldest = u

\* if (page.length < limit || !oldestInPage || oldestInPage === until) break
StopAfterPage(pg, oldest, u) ==
  Len(pg) < limit \/ Falsy(oldest) \/ oldest = u

\* the loop test with the ceiling off by one
PollAgainOnceMore(st, n) == st \in {"queued", "in_progress"} /\ n <= MAX_TRIES

\* while ((status === "queued" || status === "in_progress") && tries < 12)
PollAgain(st, n) == st \in {"queued", "in_progress"} /\ n < MAX_TRIES

\* throws on "failed" only, instead of on everything but "completed"
AfterStatusLenient(st, n) ==
  IF PollAgain(st, n)
  THEN /\ pc' = "pollSleep"
       /\ calls' = calls /\ resp' = resp /\ messages' = messages
       /\ UNCHANGED fetchVars
  ELSE IF st = "failed"
  THEN Throw("Assistant run did not complete")
  ELSE /\ calls' = Append(calls, [ep |-> "listThreadMessages"])
       /\ pc' = "awaitMsgs"
       /\ resp' = resp /\ messages' = messages
       /\ UNCHANGED fetchVars

\* the poll loop's test, and what follows the loop
AfterStatus(st, n) ==
  IF PollAgain(st, n)
  THEN /\ pc' = "pollSleep"
       /\ calls' = calls /\ resp' = resp /\ messages' = messages
       /\ UNCHANGED fetchVars
  ELSE IF st # "completed"
  THEN Throw("Assistant run did not complete")
  ELSE /\ calls' = Append(calls, [ep |-> "listThreadMessages"])
       /\ pc' = "awaitMsgs"
       /\ resp' = resp /\ messages' = messages
       /\ UNCHANGED fetchVars

-----------------------------------------------------------------------------
(* Inputs *)

Requests ==
  {[method |-> "GET", convoId |-> NULL],
   [method |-> "POST", convoId |-> NULL],
   [method |-> "POST", convoId |-> "c1"]}

Subjects == {"", "Invoice", " RE: Invoice"}
Outs == {"", "Thanks!"}
RunStatuses == {"queued", "in_progress", "completed", "failed"}

Server(mode, n, ties, inclusive, drift, corder, senders, subj) ==
  [mode |-> mode, n |-> n, ties |-> ties, inclusive |-> inclusive,
   drift |-> drift, corder |-> corder, senders |-> senders, subject |-> subj]

FreeServers ==
  {Server("free", 0, FALSE, FALSE, "down", "zigzag", "mixed", "Invoice"),
   Server("free", 0, FALSE, FALSE, "up", "asc", "mixed", "Invoice"),
   Server("free", 0, FALSE, FALSE, "sparse", "zigzag", "mixed", "Invoice")}

\* platforms of the fetcher's specification
FetchServers ==
  {Server("store", n, t, inc, "down", "asc", "mixed", "Invoice") :
     n \in {0, ShortLen, limit, limit + 3, limit + ShortLen, limit * MAX_PAGES},
     t \in BOOLEAN, inc \in BOOLEAN}
  \cup FreeServers

\* platforms of the handlers' specification
HandlerServers ==
  {Server("store", n, FALSE, FALSE, "down", "asc", sd, subj) :
     n \in 0..MaxConv, sd \in {"ext", "tab", "extfirst", "mixed"}, subj \in Subjects}
  \cup {Server("store", limit + ShortLen, FALSE, FALSE, "down", "asc", "mixed", "Invoice")}

\* convo.conversation.messages of the handler that takes the thread from the
\* conversation itself
ConvoMessages == [i \in 1..srv.n |-> Hydrated([id |-> srv.n - i + 1])]

-----------------------------------------------------------------------------
(* Actions *)

InitWith(V, Servers) ==
  /\ variant \in V
  /\ req \in Requests
  /\ srv \in Servers
  /\ pc = "start"
  /\ until = NOTIME /\ collected = <<>> /\ pages = 0
  /\ page = <<>> /\ full = <<>> /\ inflight = {}
  /\ messages = <<>>
  /\ subject = ""
  /\ out = ""
  /\ status = NULL
  /\ tries = 0
  /\ calls = <<>>
  /\ listed = <<>>
  /\ failedEp = {}
  /\ resp = <<>>
  /\ arg = NULL
  /\ ret = NULL

\* handler entry without the check of conversation.id
HandleRequestNoIdCheck ==
  /\ pc = "start"
  /\ UNCHANGED <<arg, ret>>
  /\ UNCHANGED <<variant, req, srv, subject, out, status, tries, listed, failedEp>>
  /\ UNCHANGED fetchVars
  /\ messages' = messages
  /\ IF req.method # "POST"
     THEN /\ Respond(200, "ok") /\ pc' = "done" /\ calls' = calls
     ELSE /\ calls' = Append(calls, [ep |-> "getConversation"])
          /\ pc' = "awaitConvo"
          /\ resp' = resp

\* handler entry, up to the first await
HandleRequest ==
  /\ pc = "start"
  /\ UNCHANGED <<arg, ret>>
  /\ UNCHANGED <<variant, req, srv, subject, out, status, tries, listed, failedEp>>
  /\ UNCHANGED fetchVars
  /\ messages' = messages
  /\ IF req.method # "POST"
     THEN /\ Respond(200, "ok") /\ pc' = "done" /\ calls' = calls
     ELSE IF req.convoId = NULL
     THEN /\ Respond(400, [error |-> "Missing conversation.id in Missive payload"])
          /\ pc' = "done" /\ calls' = calls
     ELSE /\ calls' = Append(calls, [ep |-> "getConversation"])
          /\ pc' = "awaitConvo"
          /\ resp' = resp

\* GET /conversations/:id answered
ConvoResponse ==
  /\ pc = "awaitConvo"
  /\ UNCHANGED <<arg, ret>>
  /\ UNCHANGED <<variant, req, srv, out, status, tries, listed>>
  /\ \/ /\ failedEp' = failedEp \cup {"getConversation"}
        /\ subject' = subject
        /\ Throw("Missive conversation fetch failed")
     \/ /\ failedEp' = failedEp
        /\ subject' = trim(srv.subject)
        /\ IF variant \in FetchVariants
           THEN LoopHead(0, NOTIME, <<>>)
           ELSE StartGeneration(SortByCreated(ConvoMessages))

\* the same list request sent once more after a failure
OnListFailureRetry == LoopHead(pages, until, collected)

\* if (!listResp.ok) throw
OnListFailure == Throw("Missive list conversation messages failed")

\* GET /conversations/:id/messages answered
ListResponse ==
  /\ pc = "awaitList"
  /\ UNCHANGED <<arg, ret>>
  /\ UNCHANGED <<variant, req, srv, subject, out, status, tries>>
  /\ \/ /\ failedEp' = failedEp \cup {"listMessages"}
        /\ listed' = listed
        /\ OnListFailure
     \/ \E pg \in ListPages(until, Len(collected)) :
          /\ failedEp' = failedEp
          /\ listed' = Append(listed, pg)
          /\ IF Len(pg) = 0
             THEN EndFetch(collected)
             ELSE /\ calls' = calls \o [j \in 1..Len(pg) |->
                                          [ep |-> "getMessage", id |-> pg[j].id]]
                  /\ pc' = "awaitHydrate"
                  /\ page' = pg
                  \* the results of Promise.all, none of them settled yet
                  /\ full' = [j \in 1..Len(pg) |->
                               [id |-> 0, created_at |-> NOTIME, from |-> NULL]]
                  /\ inflight' = 1..Len(pg)
                  /\ UNCHANGED <<until, collected, pages, messages, resp>>

\* fail-soft instead of fail-closed: hand back what was collected so far
OnHydrateFailureSoft(i) ==
  /\ failedEp' = failedEp \cup {"getMessage"}
  /\ EndFetch(collected)

\* if (!msgResp.ok) throw: Promise.all rejects, the fetch and the handler abort
OnHydrateFailure(i) ==
  /\ failedEp' = failedEp \cup {"getMessage"}
  /\ Throw(<<"Missive get message failed", page[i].id>>)

\* the results placed in the order in which the answers arrive
JoinInArrivalOrder(f, i, m, waiting) ==
  [f EXCEPT ![Len(f) - Cardinality(waiting) + 1] = m]

\* Promise.all: the result of the i-th promise is the i-th element, whichever
\* promises are still waiting
JoinAt(f, i, m, waiting) == [f EXCEPT ![i] = m]

\* one GET /messages/:id of the current page answered; the last one joins
HydrateResponse ==
  /\ pc = "awaitHydrate"
  /\ UNCHANGED <<arg, ret>>
  /\ UNCHANGED <<variant, req, srv, subject, out, status, tries, listed>>
  /\ \E i \in inflight :
       \/ OnHydrateFailure(i)
       \/ /\ failedEp' = failedEp
          /\ LET f2 == JoinAt(full, i, Hydrated(page[i]), inflight)
                 coll2 == collected \o f2
                 oldest == oldestInPage(page)
             IN IF inflight # {i}
                THEN /\ full' = f2
                     /\ inflight' = inflight \ {i}
                     /\ UNCHANGED <<pc, until, collected, pages, page,
                                    messages, calls, resp>>
                ELSE IF StopAfterPage(page, oldest, until)
                THEN EndFetch(coll2)
                ELSE /\ pc' = "sleep"
                     /\ until' = oldest
                     /\ pages' = pages + 1
                     /\ collected' = coll2
                     /\ page' = <<>> /\ full' = <<>> /\ inflight' = {}
                     /\ UNCHANGED <<messages, calls, resp>>

\* await sleep(120) over: back to the top of the loop
SleepDone ==
  /\ pc = "sleep"
  /\ UNCHANGED <<arg, ret>>
  /\ UNCHANGED <<variant, req, srv, subject, out, status, tries, listed, failedEp>>
  /\ LoopHead(pages, until, collected)

\* messageOutput?.content?.[0]?.text || "<p>Thanks for reaching out.</p>"
textOrDefault(o) == IF o = "" THEN "<p>Thanks for reaching out.</p>" ELSE o

\* POST /responses answered
GenResponse ==
  /\ pc = "awaitGen"
  /\ UNCHANGED <<arg, ret>>
  /\ UNCHANGED <<variant, req, srv, subject, status, tries, listed>>
  /\ \/ /\ failedEp' = failedEp \cup {"createResponse"}
        /\ out' = out
        /\ Throw("OpenAI response create error")
     \/ \E o \in Outs :
          /\ failedEp' = failedEp
          /\ out' = textOrDefault(o)
          /\ StartDraft

\* POST /threads answered
ThreadResponse ==
  /\ pc = "awaitThread"
  /\ UNCHANGED <<arg, ret>>
  /\ UNCHANGED <<variant, req, srv, subject, out, status, tries, listed>>
  /\ \/ /\ failedEp' = failedEp \cup {"createThread"}
        /\ Throw("OpenAI thread create error")
     \/ /\ failedEp' = failedEp
        /\ calls' = Append(calls, [ep |-> "createRun"])
        /\ pc' = "awaitRun"
        /\ UNCHANGED <<resp, messages>>
        /\ UNCHANGED fetchVars

\* POST /threads/:id/runs answered
RunResponse ==
  /\ pc = "awaitRun"
  /\ UNCHANGED <<arg, ret>>
  /\ UNCHANGED <<variant, req, srv, subject, out, listed>>
  /\ \/ /\ failedEp' = failedEp \cup {"createRun"}
        /\ UNCHANGED <<status, tries>>
        /\ Throw("OpenAI run create error")
     \/ \E st \in RunStatuses :
          /\ failedEp' = failedEp
          /\ status' = st
          /\ tries' = 0
          /\ AfterStatus(st, 0)

\* await sleep(1200) over: the status request goes out
PollSleepDone ==
  /\ pc = "pollSleep"
  /\ UNCHANGED <<arg, ret>>
  /\ UNCHANGED <<variant, req, srv, subject, out, status, tries, listed,
                 failedEp, resp, messages>>
  /\ UNCHANGED fetchVars
  /\ calls' = Append(calls, [ep |-> "getRun"])
  /\ pc' = "awaitPoll"

\* GET /threads/:id/runs/:id answered; r.ok is not looked at, j.status is.
\* A non-success answer carries whatever body the service sends: a JSON body
\* with or without a status field, or no JSON at all (r.json() throws).
PollResponse ==
  /\ pc = "awaitPoll"
  /\ UNCHANGED <<arg, ret>>
  /\ UNCHANGED <<variant, req, srv, subject, out, listed>>
  /\ \/ \E st \in RunStatuses :
          /\ failedEp' = failedEp
          /\ status' = st
          /\ tries' = tries + 1
          /\ AfterStatus(st, tries + 1)
     \/ \E st \in RunStatuses \cup {NULL} :
          /\ failedEp' = failedEp \cup {"getRun"}
          /\ status' = st
          /\ tries' = tries + 1
          /\ AfterStatus(st, tries + 1)
     \/ /\ failedEp' = failedEp \cup {"getRun"}
        /\ UNCHANGED <<status, tries>>
        /\ Throw("Unexpected token in JSON")

\* GET /threads/:id/messages answered
MsgsResponse ==
  /\ pc = "awaitMsgs"
  /\ UNCHANGED <<arg, ret>>
  /\ UNCHANGED <<variant, req, srv, subject, status, tries, listed>>
  /\ \/ /\ failedEp' = failedEp \cup {"listThreadMessages"}
        /\ out' = out
        /\ Throw("OpenAI messages fetch error")
     \/ \E o \in Outs :
          /\ failedEp' = failedEp
          /\ out' = textOrDefault(o)
          /\ StartDraft

\* POST /drafts (or /messages) answered
DraftResponse ==
  /\ pc = "awaitDraft"
  /\ UNCHANGED <<arg, ret>>
  /\ UNCHANGED <<variant, req, srv, subject, out, status, tries, listed>>
  /\ \/ /\ failedEp' = failedEp \cup {"createDraft"}
        /\ Throw("Missive draft create error")
     \/ /\ failedEp' = failedEp
        /\ Respond(200, [ok |-> TRUE])
        /\ pc' = "done"
        /\ UNCHANGED <<calls, messages>>
        /\ UNCHANGED fetchVars

Next ==
  \/ HandleRequest
  \/ ConvoResponse
  \/ ListResponse
  \/ HydrateResponse
  \/ SleepDone
  \/ GenResponse
  \/ ThreadResponse
  \/ RunResponse
  \/ PollSleepDone
  \/ PollResponse
  \/ MsgsResponse
  \/ DraftResponse

NextFetch ==
  \/ HandleRequest
  \/ ConvoResponse
  \/ ListResponse
  \/ HydrateResponse
  \/ SleepDone
  \/ GenResponse
  \/ DraftResponse

Init == InitWith(Variants, HandlerServers)
InitFetch == InitWith({"target"}, FetchServers)

\* every handler of the repository, small conversations
Spec == Init /\ [][Next]_vars

\* the latest handler, against every platform behaviour
SpecFetch == InitFetch /\ [][NextFetch]_vars

\* every handler, with every await resumed in the end: each external call
\* returns an answer and each sleep is over after its time
SpecLive == Init /\ [][Next]_vars /\ WF_vars(Next)

-----------------------------------------------------------------------------
(* detectCtaPath on its own: the handler calls it once, with the thread    *)
(* text and the conversation subject, before the generation request.      *)

CtaTexts ==
  {"",
   "Hello, thank you for your help.",
   "Do you sell a card reader? I also need an invoice.",
   "Please send me an INVOICE for the stay",
   "Does Tab work with Xero or QuickBooks?",
   "We take deposits on our website checkout, and want a payment link",
   "Can guests pay on-site with the plugin?",
   "Necesito un DATÁFONO para la tienda",
   "Quero a integração com o meu site",
   "Je voudrais un acompte, paiement a l~avance",
   "compost and postage only",
   "Payment form for my POS"}

CtaSubjects == {"", "Question", "Invoice", "RE: Card Machine", "Intégration"}

CtaInputs == [text : CtaTexts, subj : CtaSubjects]

InitCta ==
  /\ variant = "target"
  /\ req = [method |-> "POST", convoId |-> "c1"]
  /\ srv = Server("store", 0, FALSE, FALSE, "down", "asc", "ext", "")
  /\ pc = "cta"
  /\ until = NOTIME /\ collected = <<>> /\ pages = 0
  /\ page = <<>> /\ full = <<>> /\ inflight = {}
  /\ messages = <<>>
  /\ subject = ""
  /\ out = ""
  /\ status = NULL
  /\ tries = 0
  /\ calls = <<>>
  /\ listed = <<>>
  /\ failedEp = {}
  /\ resp = <<>>
  /\ arg \in CtaInputs
  /\ ret = NULL

\* const suggestedPath = detectCtaPath(threadText, subject)
RouteCta ==
  /\ pc = "cta"
  /\ ret' = detectCtaPath(arg.text, arg.subj)
  /\ pc' = "ctaDone"
  /\ UNCHANGED <<variant, req, srv, until, collected, pages, page, full,
                 inflight, messages, subject, out, status, tries, calls,
                 listed, failedEp, resp, arg>>

NextCta == RouteCta

SpecCta == InitCta /\ [][NextCta]_vars

-----------------------------------------------------------------------------
(* The text helpers on their own: each is applied once and twice to its    *)
(* argument.                                                               *)

MaxClamp == 6   \* largest limit handed to clamp

Htmls ==
  {"",
   "<p>a</p>",
   "<p>a</p><p>b</p>",
   "<p>a</p> \n <p>b</p><p>c</p>",
   "<p>a</p><p><br></p><p>b</p>",
   "<p>a</p><P>b</P>",
   "Thanks!",
   "<p>Best regards,</p><p>Raghvi</p>",
   "<p>Raghvi</p>",
   "<p>Thanks</p><p>Raghvi</p><p>Tab Support</p>",
   "<p>Tab Support will call you</p>"}

ClampTexts ==
  {"", "a", "abcdef", "abcdefg", "abcdefghijkl",
   "abc\n[...truncated for length...]",
   "\n[...truncated for length...]"}

TextArg(fn, text, name, max, path) ==
  [fn |-> fn, text |-> text, name |-> name, max |-> max, path |-> path]

HelperInputs ==
  {TextArg(fn, h, "", 0, "/") : fn \in {"spacing", "signature", "signatureShort"}, h \in Htmls}
  \cup {TextArg("clamp", t, "", m, "/") : t \in ClampTexts, m \in 0..MaxClamp}
  \cup {TextArg("draftSubject", t, "", 0, "/") :
          t \in {"Invoice", "Re: Invoice", "RE: Invoice", "re:invoice", "Re:",
                 "Regarding you", "R", " Re: x", "Fwd: Re: x"}}

\* bodies for the greeting and the CTA steps and raw outputs of the generation
Bodies ==
  {"<p>Thanks!</p>",
   "<p>Hi Maria,</p><p>Thanks</p>",
   "<p>Hi there,</p><p>Thanks</p>",
   "<p>Hi there, thanks for your mail.</p>",
   "Hi there, <b>thanks</b>",
   "<p>Hello Maria,</p><p>ok</p>",
   "<p>Thanks</p><p>Hi there,</p>",
   "<p>Highly recommended!</p>",
   "Dear team, thanks",
   "<p>Hello</p><p>Hi x</p><p>Dear y</p>",
   "<p>See business.tab.travel</p>",
   "<p>See <a href=\"https://BUSINESS.TAB.TRAVEL/x\">here</a></p>",
   "<p>tab.travel</p>",
   "<p>ok</p>" \o ctaSentence(SUGGESTED_CTA_URL("/"))}

RawOutputs ==
  {"Thanks!",
   "Thanks\nagain",
   "Highly recommended!",
   "x\r- a\r- b",
   "Raghvi of Tab Support will call",
   "Hi there, ok",
   "see business.tab.travel/x",
   "<p>Thanks</p>",
   "1 < 2",
   "Thank you. We are on it. Bye.",
   "<p>Hi there, thanks. See <a href=\"https://business.tab.travel/features\">our site</a>. We can help. Bye now.</p>",
   "Hello. See https://business.tab.travel/features today. We can help. Bye now."}

TextInputs ==
  HelperInputs
  \* what the coercion, the greeting step and the CTA step hand to
  \* ensureReadableStructure
  \cup {TextArg("structure",
                withCta(withGreeting(ensureHtml(o), n), SUGGESTED_CTA_URL("/")), n, 0, "/") :
          o \in RawOutputs, n \in {"", "Maria"}}
  \* bodies of one to three paragraphs for dedupeGreetings
  \cup (LET texts == {"Hi Maria,", "Hello", " dear team,", "Thanks", "Highly recommended!",
                      "History of the order"}
            P(t) == "<p>" \o t \o "</p>"
        IN {TextArg("dedupe", h, "", 0, "/") :
              h \in {P(a) : a \in texts}
                    \cup {P(a) \o P(b) : a, b \in texts}
                    \cup {P(a) \o P(b) \o P(c) : a, b, c \in texts}
                    \cup {P(a) \o " \n" \o P(b) : a, b \in texts}})
  \cup {TextArg(fn, h, n, 0, "/") :
          fn \in {"greeting", "greetingHiOnly"}, h \in Bodies, n \in {"", "Maria"}}
  \cup {TextArg("cta", h, "", 0, p) : h \in Bodies, p \in {"/", "/features/in-advance"}}
  \cup {TextArg(fn, o, n, 0, p) :
          fn \in {"normalize", "normalizeInbound"}, o \in RawOutputs,
          n \in {"", "Maria"}, p \in {"/", "/features/in-advance"}}

InitText ==
  /\ variant = "target"
  /\ req = [method |-> "POST", convoId |-> "c1"]
  /\ srv = Server("store", 0, FALSE, FALSE, "down", "asc", "ext", "")
  /\ pc = "text"
  /\ until = NOTIME /\ collected = <<>> /\ pages = 0
  /\ page = <<>> /\ full = <<>> /\ inflight = {}
  /\ messages = <<>>
  /\ subject = ""
  /\ out = ""
  /\ status = NULL
  /\ tries = 0
  /\ calls = <<>>
  /\ listed = <<>>
  /\ failedEp = {}
  /\ resp = <<>>
  /\ arg \in TextInputs
  /\ ret = NULL

\* the helper fn has been applied: once and twice
TextStep(fn, once, twice) ==
  /\ pc = "text"
  /\ arg.fn = fn
  /\ ret' = [once |-> once, twice |-> twice]
  /\ pc' = "textDone"
  /\ UNCHANGED <<variant, req, srv, until, collected, pages, page, full,
                 inflight, messages, subject, out, status, tries, calls,
                 listed, failedEp, resp, arg>>

ApplyClamp ==
  TextStep("clamp", clamp(arg.text, arg.max),
           clamp(clamp(arg.text, arg.max), arg.max))

ApplySpacing ==
  TextStep("spacing", addParagraphSpacing(arg.text),
           addParagraphSpacing(addParagraphSpacing(arg.text)))

ApplySignature ==
  TextStep("signature", appendSignature(arg.text),
           appendSignature(appendSignature(arg.text)))

ApplySignatureShort ==
  TextStep("signatureShort", appendSignatureShort(arg.text),
           appendSignatureShort(appendSignatureShort(arg.text)))

ApplyDraftSubject ==
  TextStep("draftSubject", draftSubject(arg.text), draftSubject(draftSubject(arg.text)))

ApplyGreeting ==
  TextStep("greeting", withGreeting(arg.text, arg.name),
           withGreeting(withGreeting(arg.text, arg.name), arg.name))

ApplyGreetingHiOnly ==
  TextStep("greetingHiOnly", withGreetingHiOnly(arg.text, arg.name),
           withGreetingHiOnly(withGreetingHiOnly(arg.text, arg.name), arg.name))

ApplyDedupe ==
  TextStep("dedupe", dedupeGreetings(arg.text), dedupeGreetings(dedupeGreetings(arg.text)))

ApplyStructure ==
  TextStep("structure", ensureReadableStructure(arg.text),
           ensureReadableStructure(ensureReadableStructure(arg.text)))

ApplyCta ==
  LET url == SUGGESTED_CTA_URL(arg.path)
  IN TextStep("cta", withCta(arg.text, url), withCta(withCta(arg.text, url), url))

\* the whole normalization acts once on a raw output
ApplyNormalize ==
  LET body == finalBody(arg.text, arg.name, arg.path)
  IN TextStep("normalize", body, body)

ApplyNormalizeInbound ==
  LET body == finalBodyInbound(arg.text, arg.name, arg.path)
  IN TextStep("normalizeInbound", body, body)

NextText ==
  \/ ApplyGreeting
  \/ ApplyGreetingHiOnly
  \/ ApplyDedupe
  \/ ApplyStructure
  \/ ApplyCta
  \/ ApplyNormalize
  \/ ApplyNormalizeInbound
  \/ ApplyClamp
  \/ ApplySpacing
  \/ ApplySignature
  \/ ApplySignatureShort
  \/ ApplyDraftSubject

SpecText == InitText /\ [][NextText]_vars

-----------------------------------------------------------------------------
(* Vocabulary of the properties *)

CallsTo(ep) == {i \in 1..Len(calls) : calls[i].ep = ep}
Issued(ep) == CallsTo(ep) # {}

GenerationEps == {"createResponse", "createThread", "createRun", "getRun",
                  "listThreadMessages"}
\* fetchConversationMessages has returned (the handler is past it)
FetchReturned ==
  /\ variant \in FetchVariants
  /\ \E i \in 1..Len(calls) : calls[i].ep \in {"createResponse", "createThread"}

\* every stub the listing endpoint delivered, in delivery order
RECURSIVE Concat(_, _)
Concat(ps, k) == IF k = 0 THEN <<>> ELSE Concat(ps, k - 1) \o ps[k]
ListedStubs == Concat(listed, Len(listed))

Answered(code) == Len(resp) = 1 /\ resp[1].code = code
AnsweredError(code) ==
  /\ Answered(code)
  /\ DOMAIN resp[1].body = {"error"}
AnsweredOkTrue == Answered(200) /\ resp[1].body = [ok |-> TRUE]

\* C1: the list fetchConversationMessages returns is ordered by created_at,
\* non-decreasing from first to last, whatever the pages and their order.
C1_SortedByCreated ==
  \A i \in 1..(Len(messages) - 1) :
    messages[i].created_at <= messages[i + 1].created_at

\* the fetch returned more than one page whose delivery order was not sorted
C1_Witness ==
  /\ FetchReturned
  /\ Len(listed) >= 2
  /\ Len(messages) = Len(ListedStubs)
  /\ \E i \in 1..(Len(ListedStubs) - 1) :
       CreatedOf(ListedStubs[i].id) > CreatedOf(ListedStubs[i + 1].id)

\* C2: at most MAX_PAGES (6) list requests are ever issued, also when every
\* page is full and moves the cursor; with pages of at most `limit` (10)
\* messages the result holds at most 60 messages.
C2_PageCeiling ==
  /\ Cardinality(CallsTo("listMessages")) <= MAX_PAGES
  /\ Len(collected) <= limit * MAX_PAGES
  /\ Len(messages) <= limit * MAX_PAGES

\* six full pages, each with another oldest delivered_at, and the fetch returned
C2_Witness ==
  /\ srv.mode = "free"
  /\ FetchReturned
  /\ Len(listed) = MAX_PAGES
  /\ \A p \in 1..Len(listed) : Len(listed[p]) = limit
  /\ \A p, q \in 1..Len(listed) :
       p # q => oldestInPage(listed[p]) # oldestInPage(listed[q])
  /\ Len(messages) = limit * MAX_PAGES

\* C3: after a non-success answer to a list request or to a hydration request
\* the fetch returns no message, the handler has answered 500, and neither the
\* generation request nor the draft-creation request is ever issued.
C3_FetchFailsClosed ==
  (failedEp \cap {"listMessages", "getMessage"}) # {} =>
    /\ messages = <<>>
    /\ pc = "done"
    /\ AnsweredError(500)
    /\ \A i \in 1..Len(calls) :
         calls[i].ep \notin (GenerationEps \cup {"createDraft"})

\* a hydration failed on a later page, after a fully hydrated first page
C3_Witness ==
  /\ "getMessage" \in failedEp
  /\ Len(listed) >= 2
  /\ Len(listed[1]) = limit
  /\ Cardinality(CallsTo("getMessage")) > limit
  /\ AnsweredError(500)

\* the generation step of the running handler has succeeded (with the
\* Assistants API: the run was created and reported completed, and its
\* messages were read)
GenerationSucceeded ==
  IF variant \in ResponsesVariants
  THEN Issued("createResponse") /\ "createResponse" \notin failedEp
  ELSE /\ Issued("createThread") /\ Issued("createRun") /\ Issued("listThreadMessages")
       /\ (failedEp \cap (GenerationEps \ {"getRun"})) = {}
       /\ status = "completed"

\* the whole thread has been fetched: every listed stub was hydrated
ThreadFetched ==
  variant \in FetchVariants =>
    /\ Issued("listMessages")
    /\ (failedEp \cap {"listMessages", "getMessage"}) = {}
    /\ Len(messages) = Len(ListedStubs)
    /\ \A k \in 1..Len(ListedStubs) :
         \E i \in CallsTo("getMessage") : calls[i].id = ListedStubs[k].id

\* C4: the draft-creation request is issued at most once, only after the
\* conversation fetch, the whole thread fetch and the generation have
\* succeeded, and no request to an external service follows it.
C4_DraftOnceAndLast ==
  /\ Cardinality(CallsTo("createDraft")) <= 1
  /\ \A d \in CallsTo("createDraft") :
       /\ d = Len(calls)
       /\ calls[1].ep = "getConversation"
       /\ "getConversation" \notin failedEp
       /\ ThreadFetched
       /\ GenerationSucceeded

\* a draft was created after a two-page thread fetch, and the handler is done
C4_Witness ==
  /\ pc = "done"
  /\ variant = "target"
  /\ Len(listed) = 2
  /\ Issued("createDraft")
  /\ AnsweredOkTrue

\* C5: once an external call was answered with a non-success status the
\* invocation never answers 200 {ok: true}, and it ends with a 500 response
\* carrying an error message.
C5_FailFast ==
  failedEp # {} =>
    /\ ~AnsweredOkTrue
    /\ pc = "done" => AnsweredError(500)

\* C6: a request that is not a POST is answered 200, a POST without a
\* conversation id is answered 400 with an error body, and in both cases no
\* request to an external service is issued.
C6_NoCallsWithoutConversation ==
  /\ req.method # "POST" =>
       /\ calls = <<>>
       /\ pc = "done" => (Answered(200) /\ resp[1].body = "ok")
  /\ (req.method = "POST" /\ req.convoId = NULL) =>
       /\ calls = <<>>
       /\ pc = "done" => AnsweredError(400)

\* a POST without conversation id has been answered
C6_Witness ==
  /\ req.method = "POST"
  /\ req.convoId = NULL
  /\ pc = "done"
  /\ AnsweredError(400)

\* C7: every draft-creation request of the handlers that fetch the thread
\* carries send=false, quote_previous_message=false, the sender
\* hello@tab.travel and, as recipient, the address of the reply target.
C7_DraftFields ==
  \A d \in CallsTo("createDraft") :
    variant \in FetchVariants =>
    /\ calls[d].draft.send = "false"
    /\ calls[d].draft.quote_previous_message = "false"
    /\ calls[d].draft.from_field = "hello@tab.travel"
    /\ calls[d].draft.to_fields = AddressAt(messages, getReplyTarget(messages))

\* C9: after a page of fewer than `limit` messages no further list request is
\* issued, and the fetch returns exactly the messages of all pages received.
C9_ShortPageStops ==
  /\ \A p \in 1..Len(listed) :
       Len(listed[p]) < limit =>
         /\ p = Len(listed)
         /\ Cardinality(CallsTo("listMessages")) = Len(listed)
  /\ FetchReturned =>
       /\ Len(messages) = Len(ListedStubs)
       /\ \A k \in 1..Len(ListedStubs) :
            Cardinality({i \in 1..Len(messages) : messages[i].id = ListedStubs[k].id})
              = Cardinality({i \in 1..Len(ListedStubs) :
                               ListedStubs[i].id = ListedStubs[k].id})

\* page 1 of 10 messages, page 2 of 4: two list requests, 14 messages
C9_Witness ==
  /\ FetchReturned
  /\ Len(listed) = 2
  /\ Len(listed[1]) = 10
  /\ Len(listed[2]) = 4
  /\ Cardinality(CallsTo("listMessages")) = 2
  /\ Len(messages) = 14

\* C10: for a stored conversation of at most 60 messages, served newest
\* first in pages of `limit` below the until cursor (the cursor read as
\* exclusive, under which a conversation without ties is fetched whole), the
\* returned list holds every message exactly once, ties in delivered_at
\* at a page boundary included.
C10_CompleteAndUnique ==
  (FetchReturned /\ srv.mode = "store" /\ ~srv.inclusive
     /\ srv.n <= limit * MAX_PAGES) =>
    /\ Len(messages) = srv.n
    /\ {messages[i].id : i \in 1..Len(messages)} = 1..srv.n

\* the categories by falling priority, each with its path
CtaCategories ==
  <<[rx |-> InPerson, path |-> "/features/in-person"],
    [rx |-> Integrations, path |-> "/features/integrations"],
    [rx |-> OnWebsite, path |-> "/features/on-your-website"],
    [rx |-> PaymentLinks, path |-> "/features/in-advance"]>>

\* the categories with a keyword match in subject + threadText
CtaMatching ==
  {i \in 1..Len(CtaCategories) :
     testAny(haystack(arg.text, arg.subj), CtaCategories[i].rx)}

\* C8: detectCtaPath returns the path of the highest-priority category with a
\* keyword match (in-person > integrations > on-website > payment-links), the
\* default "/" when no category matches, and always one of these five paths;
\* a text with both "card reader" and "invoice" yields the in-person path.
C8_CtaPriority ==
  pc = "ctaDone" =>
    /\ ret \in {CtaCategories[i].path : i \in 1..Len(CtaCategories)} \cup {"/"}
    /\ ret = IF CtaMatching = {} THEN "/"
             ELSE CtaCategories[SetMin(CtaMatching)].path
    /\ \A i \in CtaMatching : \A j \in 1..(i - 1) :
         ret = CtaCategories[i].path => j \notin CtaMatching
    /\ (Contains(toLowerCase(arg.text), "card reader")
        /\ Contains(toLowerCase(arg.text), "invoice"))
         => ret = "/features/in-person"

\* a text with "card reader" and "invoice" has been routed
C8_Witness ==
  /\ pc = "ctaDone"
  /\ Contains(arg.text, "card reader")
  /\ Contains(arg.text, "invoice")
  /\ {1, 4} \subseteq CtaMatching
  /\ ret = "/features/in-person"

Applied(fn) == pc = "textDone" /\ arg.fn = fn

\* C13: addParagraphSpacing applied twice gives the same body as applied once.
C13_SpacingIdempotent ==
  Applied("spacing") => ret.twice = ret.once

BothMarkers(h, m1, m2) == Contains(h, m1) /\ Contains(h, m2)

\* C14: appendSignature applied twice equals appendSignature applied once,
\* and the signature block is appended exactly when the two markers are not
\* both present in the body.
C14_SignatureIdempotent ==
  /\ Applied("signature") =>
       /\ ret.twice = ret.once
       /\ ret.once = IF BothMarkers(arg.text, "Raghvi", "Tab Support")
                     THEN arg.text ELSE arg.text \o Signature
  /\ Applied("signatureShort") =>
       /\ ret.twice = ret.once
       /\ ret.once = IF BothMarkers(arg.text, "Best regards", "Raghvi")
                     THEN arg.text ELSE arg.text \o ShortSignature

\* a body holding one of the two markers only got the signature appended
C14_Witness ==
  /\ Applied("signature")
  /\ Contains(arg.text, "Raghvi")
  /\ ~Contains(arg.text, "Tab Support")
  /\ ret.once = arg.text \o Signature
  /\ ret.twice = ret.once

\* C16: clamp(clamp(t, max), max) = clamp(t, max), also after a truncation.
C16_ClampIdempotent ==
  Applied("clamp") => ret.twice = ret.once

\* a text longer than the limit was truncated and marked
C16_Witness ==
  /\ Applied("clamp")
  /\ arg.max > 0
  /\ Len(arg.text) > arg.max
  /\ ret.once = SubSeq(arg.text, 1, arg.max) \o TruncationMarker
  /\ ret.twice = ret.once

\* C17 as stated: the length of clamp(t, max) is at most max.
C17_HardCap ==
  Applied("clamp") => Len(ret.once) <= arg.max

\* C17: clamp returns a text within the limit unchanged, and otherwise its
\* first max characters followed by the truncation marker, so the length of
\* the result is at most max plus the length of the marker.
C17_CapPlusMarker ==
  Applied("clamp") =>
    /\ Len(arg.text) <= arg.max => ret.once = arg.text
    /\ Len(arg.text) > arg.max =>
         /\ SubSeq(ret.once, 1, arg.max) = SubSeq(arg.text, 1, arg.max)
         /\ Len(ret.once) = arg.max + Len(TruncationMarker)
    /\ Len(ret.once) <= arg.max + Len(TruncationMarker)

\* a truncated text is longer than the limit
C17_Witness ==
  /\ Applied("clamp")
  /\ Len(arg.text) > arg.max
  /\ Len(ret.once) = arg.max + Len(TruncationMarker)
  /\ Len(ret.once) > arg.max

\* C11: the subject of every draft is the conversation subject unchanged when
\* that subject starts with "re:" in any letter case, and "Re: " followed by
\* the subject for every other non-empty subject.
C11_SinglePrefix ==
  \A d \in CallsTo("createDraft") :
    (variant \in {"target", "assistfull"} /\ subject # "") =>
      calls[d].draft.subject =
        IF startsWith(toLowerCase(subject), "re:") THEN subject
        ELSE "Re: " \o subject

\* the calls that are list requests, in the order issued
ListCalls == SelectSeq(calls, LAMBDA c : c.ep = "listMessages")

\* the cursor sent with the p-th list request (NOTIME: none)
ListCursor(p) == ListCalls[p].until

\* the delivered_at values of the pages 1..k received
DeliveredUpTo(k) == UNION {deliveredAts(listed[q]) : q \in 1..k}

\* page p is full and cannot advance the cursor
StuckPage(p) ==
  /\ Len(listed[p]) = limit
  /\ \/ deliveredAts(listed[p]) = {}
     \/ oldestInPage(listed[p]) = ListCursor(p)

\* C19: after a full page whose delivered_at values are all missing, or whose
\* oldest delivered_at equals the cursor sent with its request, no further
\* list request is issued and the page's messages are in the returned list.
C19_StuckCursorStops ==
  \A p \in 1..Len(listed) :
    StuckPage(p) =>
      /\ p = Len(listed)
      /\ Len(ListCalls) = p
      /\ FetchReturned =>
           \A j \in 1..Len(listed[p]) :
             \E i \in 1..Len(messages) : messages[i].id = listed[p][j].id

\* a later full page came back with the cursor as its oldest delivered_at,
\* and the fetch returned every message listed
C19_Witness ==
  /\ FetchReturned
  /\ Len(listed) >= 2
  /\ StuckPage(Len(listed))
  /\ ListCursor(Len(listed)) # NOTIME
  /\ oldestInPage(listed[Len(listed)]) = ListCursor(Len(listed))
  /\ Len(messages) = Len(ListedStubs)

\* C20 as stated: the first list request carries no cursor and every later
\* one carries the oldest delivered_at over all pages received so far, so
\* the cursor never increases, whatever pages are returned.
C20_CursorIsOldestSoFar ==
  \A p \in 1..Len(ListCalls) :
    /\ p = 1 => ListCursor(p) = NOTIME
    /\ p > 1 => ListCursor(p) = SetMin(DeliveredUpTo(p - 1))
    /\ p > 2 => ListCursor(p) <= ListCursor(p - 1)

\* C20: the first list request carries no cursor and every later one carries
\* the oldest delivered_at of the page received just before it; when every
\* page holds only messages delivered no later than the cursor it was asked
\* with (a stored conversation), that is the oldest delivered_at over all
\* pages received so far and the cursor never increases.
C20_CursorIsOldestOfLastPage ==
  \A p \in 1..Len(ListCalls) :
    /\ p = 1 => ListCursor(p) = NOTIME
    /\ p > 1 =>
         /\ deliveredAts(listed[p - 1]) # {}
         /\ ListCursor(p) = SetMin(deliveredAts(listed[p - 1]))
    /\ (p > 1 /\ srv.mode = "store") => ListCursor(p) = SetMin(DeliveredUpTo(p - 1))
    /\ (p > 2 /\ srv.mode = "store") => ListCursor(p) < ListCursor(p - 1)

\* three list requests on a stored conversation, with falling cursors
C20_Witness ==
  /\ srv.mode = "store"
  /\ Len(ListCalls) >= 3
  /\ ListCursor(1) = NOTIME
  /\ ListCursor(2) = SetMin(deliveredAts(listed[1]))
  /\ ListCursor(3) < ListCursor(2)

\* C15: the CTA sentence is appended exactly when the body holds no
\* reference to business.tab.travel (letter case ignored); after the step the
\* body references the domain, the step has added the sentence at most once
\* and never next to an existing reference, and a second application changes
\* nothing.
C15_CtaOnceWhenAbsent ==
  Applied("cta") =>
    LET cta == ctaSentence(SUGGESTED_CTA_URL(arg.path))
        referenced == Contains(toLowerCase(arg.text), "business.tab.travel")
    IN /\ ret.once = (IF referenced THEN arg.text ELSE arg.text \o cta)
       /\ Contains(toLowerCase(ret.once), "business.tab.travel")
       /\ Occurrences(ret.once, cta) = (IF referenced THEN Occurrences(arg.text, cta) ELSE 1)
       /\ Occurrences(ret.once, cta) <= 1
       /\ ret.twice = ret.once

\* the step has appended the sentence to a body without a reference
C15_Witness ==
  /\ Applied("cta")
  /\ ~Contains(toLowerCase(arg.text), "business.tab.travel")
  /\ ret.once # arg.text
  /\ ret.twice = ret.once

\* C12: for a body whose first visible text starts with the word hi, hello
\* or dear the greeting step adds no paragraph, and applying the greeting
\* step twice gives the same body as applying it once.
C12_GreetingIdempotent ==
  Applied("greeting") \/ Applied("greetingHiOnly") =>
    /\ startsWithGreeting(arg.text) =>
         Occurrences(ret.once, "<p>") <= Occurrences(arg.text, "<p>")
    /\ ret.twice = ret.once

\* C18: for a raw output without tag-like markup, without a leading greeting
\* word and without a mention of business.tab.travel the published body is
\* the greeting paragraph, the raw text wrapped in one paragraph, the CTA
\* sentence paragraph and the signature block, in this order, the first
\* three set apart by the spacer paragraph of the spacing step.
C18_PublishedBody ==
  Applied("normalize") \/ Applied("normalizeInbound") =>
    LET raw == arg.text
        plainText == ensureHtml(raw) # raw
        spacer == "<p><br></p>"
    IN plainText /\ ~startsWithGreeting(raw)
       /\ ~Contains(toLowerCase(raw), "business.tab.travel")
       => ret.once = ourGreeting(arg.name) \o spacer \o ensureHtml(raw) \o spacer
                     \o ctaSentence(SUGGESTED_CTA_URL(arg.path)) \o Signature

\* C21: whichever hydration requests of a page complete first, a list request
\* is issued only when no hydration request of the page before is waiting,
\* every result stands at the place of its stub, the messages collected are
\* those of the listed stubs in listing order, and
\* the list returned is their sort by created_at.
C21_JoinBeforeNextPage ==
  /\ [][Len(ListCalls') > Len(ListCalls) => inflight = {} /\ pc # "awaitHydrate"]_vars
  /\ [](pc = "awaitHydrate" =>
          \A j \in (1..Len(page)) \ inflight : full[j] = Hydrated(page[j]))
  /\ [](pc \in {"awaitHydrate", "sleep", "awaitList"} =>
          collected = [j \in 1..Len(collected) |-> Hydrated(ListedStubs[j])])
  /\ []((FetchReturned /\ "getMessage" \notin failedEp) =>
          messages = SortByCreated([j \in 1..Len(ListedStubs) |-> Hydrated(ListedStubs[j])]))

\* on a later page the last hydration request has completed while the first
\* is still waiting
C21_Witness ==
  /\ pc = "awaitHydrate"
  /\ Len(ListCalls) >= 2
  /\ Len(collected) = limit
  /\ 1 \in inflight
  /\ Len(page) > 1 /\ Len(page) \notin inflight

\* C22: no request of the fetch is retried: no two list requests carry the
\* same cursor, the hydration requests are those of the listed stubs, one for
\* each and in listing order, and once a request to an endpoint has failed no
\* further request to that endpoint is issued.
C22_NoRetry ==
  /\ [](\A p, q \in 1..Len(ListCalls) : p # q => ListCursor(p) # ListCursor(q))
  /\ [](LET gets == SelectSeq(calls, LAMBDA c : c.ep = "getMessage")
        IN /\ Len(gets) = Len(ListedStubs)
           /\ \A j \in 1..Len(gets) : gets[j].id = ListedStubs[j].id)
  /\ [][\A ep \in failedEp : CallsTo(ep)' = CallsTo(ep)]_vars

\* a list request for a later page failed after the first page was hydrated,
\* and the handler has ended with one request per cursor and per stub
C22_Witness ==
  /\ "listMessages" \in failedEp
  /\ Len(ListCalls) >= 2
  /\ Cardinality(CallsTo("getMessage")) = limit
  /\ pc = "done"

\* C23: in the handlers that use threads and runs the run status is requested
\* at most 12 times; the generated message is read and a draft is created
\* only when the last status observed is "completed"; once the poll loop is
\* over with any other status (still queued or in_progress after 12 polls, or
\* another status) the handler has answered 500 and creates no draft.
C23_BoundedPoll ==
  variant \notin ResponsesVariants =>
    /\ Cardinality(CallsTo("getRun")) <= MAX_TRIES
    /\ tries <= MAX_TRIES
    /\ (Issued("listThreadMessages") \/ Issued("createDraft")) => status = "completed"
    /\ (/\ Issued("createRun")
        /\ pc \notin {"awaitRun", "pollSleep", "awaitPoll"}
        /\ status # "completed")
       => /\ pc = "done"
          /\ AnsweredError(500)
          /\ ~Issued("listThreadMessages")
          /\ ~Issued("createDraft")

\* the run was still in progress at the twelfth poll: 500 and no draft
C23_Witness ==
  /\ variant \notin ResponsesVariants
  /\ Cardinality(CallsTo("getRun")) = MAX_TRIES
  /\ tries = MAX_TRIES
  /\ status \in {"queued", "in_progress"}
  /\ failedEp = {}
  /\ AnsweredError(500)
  /\ ~Issued("createDraft")

\* C24: when the thread, ordered by created_at, holds a message whose sender
\* is outside tab.travel, the recipient of the draft is the sender of the
\* last such message, and every message after it is from tab.travel.
C24_ReplyTargetIsLastExternal ==
  \A d \in CallsTo("createDraft") :
    LET ext == {i \in 1..Len(messages) : ~isFromTab(messages[i])}
    IN (variant \in ResponsesVariants /\ ext # {}) =>
         /\ calls[d].draft.to_fields = messages[SetMax(ext)].from
         /\ \A i \in (SetMax(ext) + 1)..Len(messages) : isFromTab(messages[i])

\* C25: when the visible text of the body begins with "Hi there" and the
\* first name of the reply target is known, the visible text after the
\* greeting step begins with "Hi <name>,", be the greeting a paragraph of its
\* own or the opening words of a longer paragraph.
C25_GenericGreetingPersonalized ==
  (/\ Applied("greeting")
   /\ arg.name # ""
   /\ MatchEnds(<<L("hi there"), B>>, 1, toLowerCase(stripToPlainText(arg.text)), 1) # {})
  => startsWith(stripToPlainText(ret.once), "Hi " \o arg.name \o ",")

\* the starts of the paragraphs of html that hold text only
ParagraphStarts(html) ==
  {i \in 1..Len(html) :
     /\ StartsAt(html, i, "<p>")
     /\ \E j \in (i + 3)..Len(html) :
          /\ StartsAt(html, j, "</p>")
          /\ \A k \in (i + 3)..(j - 1) : CharAt(html, k) # "<"}

\* the text of the paragraph that starts at i
ParagraphText(html, i) ==
  SubSeq(html, i + 3, SetMin({j \in (i + 3)..Len(html) : CharAt(html, j) = "<"}) - 1)

\* the text starts with the whole word hi, hello or dear
IsGreetingText(t) ==
  \E w \in {"hi", "hello", "dear"} :
    MatchEnds(<<Rep("star", WS), L(w), B>>, 1, toLowerCase(t), 1) # {}

\* C26: when two greeting paragraphs stand next to each other, dedupeGreetings
\* takes out the second of the first such pair and keeps everything else; a
\* body with at most one greeting paragraph comes back unchanged.
C26_DedupeAdjacentGreetings ==
  Applied("dedupe") =>
    LET starts == ParagraphStarts(arg.text)
        greets == {i \in starts : IsGreetingText(ParagraphText(arg.text, i))}
        next(i) == SkipSpace(arg.text, i + 3 + Len(ParagraphText(arg.text, i)) + 4)
        pairs == {i \in greets : next(i) \in greets}
    IN /\ pairs # {} =>
            LET i == SetMin(pairs)
                endFirst == i + 3 + Len(ParagraphText(arg.text, i)) + 4
                endSecond == next(i) + 3 + Len(ParagraphText(arg.text, next(i))) + 4
            IN ret.once = SubSeq(arg.text, 1, endFirst - 1)
                          \o SubSeq(arg.text, endSecond, Len(arg.text))
       /\ Cardinality(greets) <= 1 => ret.once = arg.text

\* C27: every paragraph of the input whose text does not start with the whole
\* word hi, hello or dear is still in the output of dedupeGreetings, and in
\* the output of the greeting step of the handler.
C27_NonGreetingKept ==
  Applied("dedupe") \/ Applied("greeting") =>
    \A i \in ParagraphStarts(arg.text) :
      ~IsGreetingText(ParagraphText(arg.text, i)) =>
        Contains(ret.once, "<p>" \o ParagraphText(arg.text, i) \o "</p>")

\* the opening tags of the hyperlinks of html that reference business.tab.travel
DomainLinks(html) ==
  LET low == toLowerCase(html)
      close(i) == SetMin({j \in i..Len(html) : CharAt(html, j) = ">"} \cup {Len(html) + 1})
  IN {SubSeq(html, i, close(i)) :
        i \in {k \in 1..Len(html) :
                 /\ StartsAt(low, k, "<a ")
                 /\ Contains(SubSeq(low, k, close(k)), "business.tab.travel")}}

\* C28: every hyperlink to business.tab.travel that the body holds when
\* ensureReadableStructure is called is in the body it returns, also when a
\* single paragraph is split into chunks of two sentences.
C28_StructureKeepsLink ==
  Applied("structure") => \A a \in DomainLinks(arg.text) : Contains(ret.once, a)

\* C29: every draft request of the handlers that address their draft names a
\* recipient address, and that address is not one of tab.travel, also when
\* every message of the thread is from tab.travel and when the thread is
\* empty.
C29_RecipientIsExternal ==
  \A d \in CallsTo("createDraft") :
    variant \in ResponsesVariants =>
      /\ calls[d].draft.to_fields # NULL
      /\ ~isFromTabAddress(calls[d].draft.to_fields)

\* C30: when every external call returns in the end, the invocation ends
\* having sent one response; no response is sent before the end and never a
\* second one; its status is 200, 400 or 500; and a POST is answered 200
\* only with {ok: true} and only when its draft request, the last call
\* made, succeeded.
C30_OneResponseInTheEnd ==
  /\ <>(pc = "done" /\ Len(resp) = 1)
  /\ [](Len(resp) = (IF pc = "done" THEN 1 ELSE 0))
  /\ [](\A k \in 1..Len(resp) : resp[k].code \in {200, 400, 500})
  /\ []((req.method = "POST" /\ Answered(200)) =>
          /\ resp[1].body = [ok |-> TRUE]
          /\ calls # <<>>
          /\ calls[Len(calls)].ep = "createDraft"
          /\ "createDraft" \notin failedEp)
  /\ [][resp' # resp => pc' = "done" /\ pc # "done"]_vars

\* a POST ended with 200 {ok: true} after polling a run to completion
C30_Witness ==
  /\ pc = "done"
  /\ req.method = "POST"
  /\ variant = "assistfull"
  /\ tries >= 2
  /\ AnsweredOkTrue
  /\ calls[Len(calls)].ep = "createDraft"

====
